---- MODULE Spec2Model ----
(***************************************************************************)
(* Model of the YouTrack MCP server: the start-up of server.py (import of  *)
(* youtrack_api, parse_arguments, app_lifespan), the four tool facades,    *)
(* the four operation functions and the HTTP adapter _make_request.        *)
(*                                                                         *)
(* Text is a sequence of symbols; concatenation of text is \o.  A JSON     *)
(* value is [t |-> "dict" | "list" | "null", v |-> set of <<key, text>>].  *)
(* An optional text (None or a str) is [isNone |-> BOOLEAN, s |-> text].   *)
(***************************************************************************)
EXTENDS Integers, Sequences, FiniteSets, TLC

VARIABLES
    environ,         \* os.environ: name -> optional text
    argv,            \* the command line as argparse sees it
    mainpc,          \* position of the server process in its start-up
    YOUTRACK_URL,    \* youtrack_api.YOUTRACK_URL
    YOUTRACK_TOKEN,  \* youtrack_api.YOUTRACK_TOKEN
    HEADERS,         \* youtrack_api.HEADERS
    ctx,             \* the AppContext yielded by app_lifespan
    pc,              \* per invocation: "idle", "waiting" (blocked in requests.request), "done"
    call,            \* per invocation: the tool and its arguments
    sent,            \* per invocation: the requests handed to requests.request, in order
    outcome,         \* per invocation: what requests.request produced
    decoded,         \* per invocation: response.json() returned a value
    result           \* per invocation: what came back out of the tool facade

vars == <<environ, argv, mainpc, YOUTRACK_URL, YOUTRACK_TOKEN, HEADERS, ctx,
          pc, call, sent, outcome, decoded, result>>

----------------------------------------------------------------------------
(* Bounds *)

NumInv == 2      \* tool invocations the runtime may have in flight together
MaxLen == 2      \* longest fields / custom_fields text, in symbols

Inv == 1..NumInv

----------------------------------------------------------------------------
(* Text, optional text, JSON *)

NoneStr == [isNone |-> TRUE, s |-> <<>>]
Some(s) == [isNone |-> FALSE, s |-> s]

\* Python truthiness of an optional str: None and "" are false
Truthy(o) == ~o.isNone /\ o.s # <<>>

Alphabet == {"f", ","}
Texts == UNION {[1..n -> Alphabet] : n \in 0..MaxLen}
OptTexts == {NoneStr} \cup {Some(s) : s \in Texts}

Dict(kv) == [t |-> "dict", v |-> kv]
List(kv) == [t |-> "list", v |-> kv]
JsonNull == [t |-> "null", v |-> {}]
EmptyDict == Dict({})
Keys(j) == {p[1] : p \in j.v}

NoJson == [isNone |-> TRUE, j |-> JsonNull]
SomeJson(j) == [isNone |-> FALSE, j |-> j]

----------------------------------------------------------------------------
(* youtrack_api.py: the operation functions.  Each returns the arguments   *)
(* of its call to _make_request.                                           *)

search_issues_default_fields == <<"idReadable", ",", "summary", ",", "project(shortName)">>
get_issue_default_fields ==
    <<"idReadable", ",", "summary", ",", "description", ",", "project(shortName)", ",",
      "customFields(projectCustomField(field(name)),value(name,login,fullName,text))">>
update_issue_default_fields == <<"idReadable", ",", "summary">>
add_comment_default_fields == <<"id", ",", "text", ",", "author(login)">>
search_issues_default_top == 100
search_issues_default_skip == 0

\* the params dict literals: {"query": ..., "fields": ..., "$top": ..., "$skip": ...}
SearchParams(query, fields, top, skip) ==
    [k \in {"query", "fields", "$top", "$skip"} |->
        CASE k = "query" -> query [] k = "fields" -> fields
          [] k = "$top" -> top [] OTHER -> skip]

\* {"fields": fields}
FieldsParams(fields) == [k \in {"fields"} |-> fields]

\* slip: the separator is left out of the f-string
AppendCustomFields_NoSeparator(params, custom_fields) ==
    IF Truthy(custom_fields)
    THEN [params EXCEPT !["fields"] = @ \o custom_fields.s]
    ELSE params

\* params["fields"] += f",{custom_fields}" under `if custom_fields:`
AppendCustomFields(params, custom_fields) ==
    IF Truthy(custom_fields)
    THEN [params EXCEPT !["fields"] = @ \o <<",">> \o custom_fields.s]
    ELSE params

\* slip: a bounds check that clamps negative pagination values to 0
search_issues_Clamped(query, fields, custom_fields, top, skip) ==
    LET endpoint == <<"issues">>
        params == SearchParams(query, fields, IF top < 0 THEN 0 ELSE top,
                               IF skip < 0 THEN 0 ELSE skip)
    IN  [method |-> "GET", endpoint |-> endpoint,
         params |-> AppendCustomFields(params, custom_fields),
         json_data |-> NoJson]

search_issues(query, fields, custom_fields, top, skip) ==
    LET endpoint == <<"issues">>
        params == SearchParams(query, fields, top, skip)
    IN  [method |-> "GET", endpoint |-> endpoint,
         params |-> AppendCustomFields(params, custom_fields),
         json_data |-> NoJson]

get_issue(issue_id, fields, custom_fields) ==
    LET endpoint == <<"issues/">> \o issue_id
        params == FieldsParams(fields)
    IN  [method |-> "GET", endpoint |-> endpoint,
         params |-> AppendCustomFields(params, custom_fields),
         json_data |-> NoJson]

update_issue(issue_id, data, fields) ==
    LET endpoint == <<"issues/">> \o issue_id
        params == FieldsParams(fields)
    IN  [method |-> "POST", endpoint |-> endpoint, params |-> params,
         json_data |-> SomeJson(data)]

add_comment(issue_id, comment_text, fields) ==
    LET endpoint == <<"issues/">> \o issue_id \o <<"/comments">>
        params == FieldsParams(fields)
        json_data == Dict({<<"text", comment_text>>})
    IN  [method |-> "POST", endpoint |-> endpoint, params |-> params,
         json_data |-> SomeJson(json_data)]

----------------------------------------------------------------------------
(* youtrack_api.py: _make_request.  The call blocks in requests.request;   *)
(* MakeRequestSend is what it hands to the library, _make_request_return   *)
(* is what the try/except makes of the library's outcome.                  *)

MakeRequestSend(r) ==
    [method |-> r.method,
     url |-> YOUTRACK_URL \o <<"/api/">> \o r.endpoint,
     headers |-> HEADERS,
     params |-> r.params,
     json |-> r.json_data]

\* requests' exception classes: the subclasses of RequestException
IsRequestException(cls) ==
    cls \in {"HTTPError", "ConnectionError", "Timeout", "JSONDecodeError", "InvalidJSONError"}

NoExc == [cls |-> "", msg |-> <<>>]
Returned(value, dec) == [kind |-> "return", value |-> value, exc |-> NoExc, decoded |-> dec]
Raised(cls, msg) == [kind |-> "raise", value |-> JsonNull, exc |-> [cls |-> cls, msg |-> msg],
                     decoded |-> FALSE]

StatusText(status_code) ==
    CASE status_code = 200 -> "200" [] status_code = 201 -> "201"
      [] status_code = 204 -> "204" [] status_code = 404 -> "404"
      [] status_code = 500 -> "500" [] OTHER -> "???"

\* slip: the call to raise_for_status() is missing
raise_for_status_Missing(response) == Returned(JsonNull, FALSE)

\* response.raise_for_status(): HTTPError for a 4xx or 5xx status
raise_for_status(response) ==
    IF 400 <= response.status_code /\ response.status_code < 600
    THEN Raised("HTTPError",
                <<StatusText(response.status_code),
                  IF response.status_code < 500 THEN " Client Error" ELSE " Server Error",
                  " for url: ">> \o response.url)
    ELSE Returned(JsonNull, FALSE)

\* response.json(): the decoded body, or the decoding error of the installed
\* requests (a RequestException from 2.27 on, a plain ValueError before)
response_json(response) ==
    IF response.body.decodable
    THEN Returned(response.body.j, TRUE)
    ELSE Raised(response.body.raises, <<"Expecting value: line 1 column 1 (char 0)">>)

\* slip: no special case for 204, the empty body goes to response.json()
TryBody_No204(o) ==
    IF o.kind = "raise" THEN Raised(o.exc.cls, o.exc.msg)
    ELSE IF raise_for_status(o.response).kind = "raise" THEN raise_for_status(o.response)
    ELSE response_json(o.response)

\* the body of the try block, lines 118-123
TryBody(o) ==
    IF o.kind = "raise" THEN Raised(o.exc.cls, o.exc.msg)
    ELSE IF raise_for_status(o.response).kind = "raise" THEN raise_for_status(o.response)
    ELSE IF o.response.status_code = 204 THEN Returned(EmptyDict, FALSE)
    ELSE response_json(o.response)

GenericMessage == <<"An unexpected error occurred">>

\* except requests.exceptions.RequestException as e: return {"error": str(e)}
ExceptRequestException(e) == Returned(Dict({<<"error", e.msg>>}), FALSE)

\* slip: the catch-all handler is missing, the exception leaves _make_request
ExceptException_Missing(e) == Raised(e.cls, e.msg)

\* slip: the catch-all handler returns str(e) like the handler above it
ExceptException_Leaks(e) == Returned(Dict({<<"error", e.msg>>}), FALSE)

\* except Exception as e: return {"error": "An unexpected error occurred"}
ExceptException(e) == Returned(Dict({<<"error", GenericMessage>>}), FALSE)

_make_request_return(o) ==
    LET t == TryBody(o)
    IN  IF t.kind = "raise"
        THEN IF IsRequestException(t.exc.cls)
             THEN ExceptRequestException(t.exc)
             ELSE ExceptException(t.exc)
        ELSE t

----------------------------------------------------------------------------
(* What requests.request can produce for a request to `url` *)

JsonBody(j) == [decodable |-> TRUE, j |-> j, raises |-> ""]
BadBody(cls) == [decodable |-> FALSE, j |-> JsonNull, raises |-> cls]

Response(status_code, url, body) ==
    [kind |-> "response", exc |-> NoExc,
     response |-> [status_code |-> status_code, url |-> url, body |-> body]]
Failure(cls, msg) ==
    [kind |-> "raise", exc |-> [cls |-> cls, msg |-> msg],
     response |-> [status_code |-> 0, url |-> <<>>, body |-> BadBody("")]]
NoOutcome == [kind |-> "none", exc |-> NoExc,
              response |-> [status_code |-> 0, url |-> <<>>, body |-> BadBody("")]]

IssueJson == Dict({<<"idReadable", <<"DEMO-1">>>>, <<"summary", <<"x">>>>})
IssueListJson == List({<<"0", <<"DEMO-1">>>>, <<"1", <<"DEMO-2">>>>})
BackendErrorJson == Dict({<<"error", <<"Not Found">>>>, <<"error_description", <<"Entity not found">>>>})

DecodeErrors == {"JSONDecodeError", "ValueError"}

\* failures that are not RequestExceptions, with their (discarded) detail
UnexpectedFailures ==
    {Failure("RuntimeError", <<"internal detail A">>),
     Failure("UnicodeError", <<"internal detail B">>)}

TransportFailures ==
    {Failure("ConnectionError", <<"Connection refused">>),
     Failure("Timeout", <<"Read timed out">>)}

Outcomes(url) ==
    {Response(200, url, JsonBody(j)) : j \in {IssueJson, IssueListJson, JsonNull}}
    \cup {Response(st, url, BadBody(cls)) : st \in {200, 204, 500}, cls \in DecodeErrors}
    \cup {Response(st, url, JsonBody(BackendErrorJson)) : st \in {404, 500}}
    \cup TransportFailures \cup UnexpectedFailures

\* one outcome of each class
FewOutcomes(url) ==
    {Response(200, url, JsonBody(IssueJson)),
     Response(204, url, BadBody("ValueError")),
     Response(404, url, JsonBody(BackendErrorJson)),
     Failure("ConnectionError", <<"Connection refused">>),
     Failure("RuntimeError", <<"internal detail A">>)}

----------------------------------------------------------------------------
(* Start-up: youtrack_api lines 7-14, server.py parse_arguments and        *)
(* app_lifespan                                                            *)

EnvNames == {"YOUTRACK_URL", "YOUTRACK_TOKEN", "YOUTRACK_READ_ONLY"}

\* os.environ.get(name, default)
EnvGet(env, name, default) == IF env[name].isNone THEN default ELSE env[name].s

\* str.lower(), on the symbols the flag is written with
Lower(s) == [k \in 1..Len(s) |-> CASE s[k] = "TRUE" -> "true" [] s[k] = "True" -> "true"
                                   [] OTHER -> s[k]]

ModuleUrl(env) == EnvGet(env, "YOUTRACK_URL", <<"YOUR_YOUTRACK_INSTANCE_URL">>)
ModuleToken(env) == EnvGet(env, "YOUTRACK_TOKEN", <<"YOUR_YOUTRACK_TOKEN">>)
ModuleHeaders(token) ==
    [h \in {"Authorization", "Accept", "Content-Type"} |->
        IF h = "Authorization" THEN <<"Bearer ">> \o token ELSE <<"application/json">>]

AppContext(env) ==
    [youtrack_url |-> EnvGet(env, "YOUTRACK_URL", <<>>),
     youtrack_token |-> EnvGet(env, "YOUTRACK_TOKEN", <<>>),
     read_only |-> (Lower(EnvGet(env, "YOUTRACK_READ_ONLY", <<"false">>)) = <<"true">>)]

\* the assignments to os.environ at the end of parse_arguments
ArgsToEnviron(env, args) ==
    [n \in EnvNames |->
        CASE n = "YOUTRACK_URL" /\ Truthy(args.youtrack_url) -> Some(args.youtrack_url.s)
          [] n = "YOUTRACK_TOKEN" /\ Truthy(args.youtrack_token) -> Some(args.youtrack_token.s)
          [] n = "YOUTRACK_READ_ONLY" /\ args.read_only -> Some(<<"true">>)
          [] OTHER -> env[n]]

Environ(u, t, r) ==
    [n \in EnvNames |-> CASE n = "YOUTRACK_URL" -> u [] n = "YOUTRACK_TOKEN" -> t [] OTHER -> r]

Environs ==
    {Environ(u, t, r) :
        u \in {NoneStr, Some(<<"https://env.example">>)},
        t \in {Some(<<"env-token">>)},
        r \in {NoneStr, Some(<<"True">>)}}

Argvs ==
    [read_only : BOOLEAN,
     youtrack_url : {NoneStr, Some(<<"https://cli.example">>)},
     youtrack_token : {NoneStr, Some(<<"cli-token">>)}]

NoCall == [tool |-> "", args |-> [fields |-> <<>>]]
NoResult == [kind |-> "none", value |-> JsonNull, exc |-> NoExc]

Idle ==
    /\ pc = [i \in Inv |-> "idle"]
    /\ call = [i \in Inv |-> NoCall]
    /\ sent = [i \in Inv |-> <<>>]
    /\ outcome = [i \in Inv |-> NoOutcome]
    /\ decoded = [i \in Inv |-> FALSE]
    /\ result = [i \in Inv |-> NoResult]

\* the process before server.py line 50 runs
Init ==
    /\ environ \in Environs
    /\ argv \in Argvs
    /\ mainpc = "import"
    /\ YOUTRACK_URL = <<>>
    /\ YOUTRACK_TOKEN = <<>>
    /\ HEADERS = ModuleHeaders(<<>>)
    /\ ctx = [youtrack_url |-> <<>>, youtrack_token |-> <<>>, read_only |-> FALSE]
    /\ Idle

\* from youtrack_api import ...: the module body reads the environment
ImportYoutrackApi ==
    /\ mainpc = "import"
    /\ YOUTRACK_URL' = ModuleUrl(environ)
    /\ YOUTRACK_TOKEN' = ModuleToken(environ)
    /\ HEADERS' = ModuleHeaders(ModuleToken(environ))
    /\ mainpc' = "main"
    /\ UNCHANGED <<environ, argv, ctx, pc, call, sent, outcome, decoded, result>>

parse_arguments ==
    /\ mainpc = "main"
    /\ environ' = ArgsToEnviron(environ, argv)
    /\ mainpc' = "run"
    /\ UNCHANGED <<argv, YOUTRACK_URL, YOUTRACK_TOKEN, HEADERS, ctx,
                   pc, call, sent, outcome, decoded, result>>

\* mcp.run() enters the lifespan, then tools are served
app_lifespan ==
    /\ mainpc = "run"
    /\ ctx' = AppContext(environ)
    /\ mainpc' = "serving"
    /\ UNCHANGED <<environ, argv, YOUTRACK_URL, YOUTRACK_TOKEN, HEADERS,
                   pc, call, sent, outcome, decoded, result>>

----------------------------------------------------------------------------
(* server.py: the tool facades.  Each logs and returns the result of the   *)
(* operation function, which returns the result of _make_request.          *)

\* slip: a request without a body drops Content-Type from the shared HEADERS
Invoke_WritesHeaders(i, tool, args, r) ==
    /\ mainpc = "serving"
    /\ pc[i] = "idle"
    /\ pc' = [pc EXCEPT ![i] = "waiting"]
    /\ call' = [call EXCEPT ![i] = [tool |-> tool, args |-> args]]
    /\ HEADERS' = IF r.json_data.isNone THEN [HEADERS EXCEPT !["Content-Type"] = <<>>]
                  ELSE HEADERS
    /\ sent' = [sent EXCEPT ![i] = Append(@, [MakeRequestSend(r) EXCEPT !.headers = HEADERS'])]
    /\ UNCHANGED <<environ, argv, mainpc, YOUTRACK_URL, YOUTRACK_TOKEN, ctx,
                   outcome, decoded, result>>

\* invocation i runs down to requests.request and blocks there
Invoke(i, tool, args, r) ==
    /\ mainpc = "serving"
    /\ pc[i] = "idle"
    /\ pc' = [pc EXCEPT ![i] = "waiting"]
    /\ call' = [call EXCEPT ![i] = [tool |-> tool, args |-> args]]
    /\ sent' = [sent EXCEPT ![i] = Append(@, MakeRequestSend(r))]
    /\ UNCHANGED <<environ, argv, mainpc, YOUTRACK_URL, YOUTRACK_TOKEN, HEADERS, ctx,
                   outcome, decoded, result>>

youtrack_search_issues(i, query, fields, custom_fields, top, skip) ==
    Invoke(i, "youtrack_search_issues",
           [query |-> query, fields |-> fields, custom_fields |-> custom_fields,
            top |-> top, skip |-> skip],
           search_issues(query, fields, custom_fields, top, skip))

youtrack_get_issue(i, issue_id, fields, custom_fields) ==
    Invoke(i, "youtrack_get_issue",
           [issue_id |-> issue_id, fields |-> fields, custom_fields |-> custom_fields],
           get_issue(issue_id, fields, custom_fields))

youtrack_update_issue(i, issue_id, data, fields) ==
    Invoke(i, "youtrack_update_issue",
           [issue_id |-> issue_id, data |-> data, fields |-> fields],
           update_issue(issue_id, data, fields))

youtrack_add_comment(i, issue_id, comment_text, fields) ==
    Invoke(i, "youtrack_add_comment",
           [issue_id |-> issue_id, comment_text |-> comment_text, fields |-> fields],
           add_comment(issue_id, comment_text, fields))

\* slip: a failed request is sent once more before the error is returned
HttpReturn_Retry(i, o) ==
    /\ pc[i] = "waiting"
    /\ IF TryBody(o).kind = "raise" /\ Len(sent[i]) < 2
       THEN /\ sent' = [sent EXCEPT ![i] = Append(@, sent[i][1])]
            /\ UNCHANGED <<pc, outcome, decoded, result>>
       ELSE /\ LET ret == _make_request_return(o)
               IN  /\ result' = [result EXCEPT ![i] =
                                    [kind |-> ret.kind, value |-> ret.value, exc |-> ret.exc]]
                   /\ decoded' = [decoded EXCEPT ![i] = ret.decoded]
            /\ outcome' = [outcome EXCEPT ![i] = o]
            /\ pc' = [pc EXCEPT ![i] = "done"]
            /\ UNCHANGED sent
    /\ UNCHANGED <<environ, argv, mainpc, YOUTRACK_URL, YOUTRACK_TOKEN, HEADERS, ctx, call>>

\* requests.request produces o; _make_request, the operation and the facade return
HttpReturn(i, o) ==
    /\ pc[i] = "waiting"
    /\ LET ret == _make_request_return(o)
       IN  /\ result' = [result EXCEPT ![i] =
                            [kind |-> ret.kind, value |-> ret.value, exc |-> ret.exc]]
           /\ decoded' = [decoded EXCEPT ![i] = ret.decoded]
    /\ outcome' = [outcome EXCEPT ![i] = o]
    /\ pc' = [pc EXCEPT ![i] = "done"]
    /\ UNCHANGED <<environ, argv, mainpc, YOUTRACK_URL, YOUTRACK_TOKEN, HEADERS, ctx,
                   call, sent>>

----------------------------------------------------------------------------
(* Inputs *)

Queries == {<<"project: DEMO">>}
IssueIds == {<<"DEMO-1">>, <<"DEMO-2">>}
Datas == {Dict({<<"summary", <<"x">>>>}), EmptyDict}
Comments == {<<"hello">>, <<>>}
SomeDatas == {Dict({<<"summary", <<"x">>>>})}
SomeComments == {<<"hello">>}
Tops == {-1, 5, 100}
Skips == {-1, 0}

----------------------------------------------------------------------------
(* Spec: the server from process start, NumInv invocations dispatched      *)
(* concurrently, each with the optional arguments at their defaults.       *)

\* The runtime dispatches a tool on a free slot i.  Each action is a
\* conjunction that starts with its guard, so its arguments are evaluated
\* when the action is taken.
SearchDefault(i) ==
    /\ pc[i] = "idle"
    /\ \E query \in Queries :
          youtrack_search_issues(i, query, search_issues_default_fields, NoneStr,
                                 search_issues_default_top, search_issues_default_skip)
GetDefault(i) ==
    /\ pc[i] = "idle"
    /\ \E issue_id \in IssueIds :
          youtrack_get_issue(i, issue_id, get_issue_default_fields, NoneStr)
UpdateDefault(i) ==
    /\ pc[i] = "idle"
    /\ \E issue_id \in IssueIds, data \in SomeDatas :
          youtrack_update_issue(i, issue_id, data, update_issue_default_fields)
CommentDefault(i) ==
    /\ pc[i] = "idle"
    /\ \E issue_id \in IssueIds, comment_text \in SomeComments :
          youtrack_add_comment(i, issue_id, comment_text, add_comment_default_fields)
ReturnFew(i) ==
    /\ pc[i] = "waiting"
    /\ \E o \in FewOutcomes(sent[i][Len(sent[i])].url) : HttpReturn(i, o)

Next ==
    \/ ImportYoutrackApi
    \/ parse_arguments
    \/ app_lifespan
    \/ \E i \in Inv : SearchDefault(i)
    \/ \E i \in Inv : GetDefault(i)
    \/ \E i \in Inv : UpdateDefault(i)
    \/ \E i \in Inv : CommentDefault(i)
    \/ \E i \in Inv : ReturnFew(i)

Spec == Init /\ [][Next]_vars

----------------------------------------------------------------------------
(* SpecCall: one invocation against a configured, serving process, over    *)
(* all argument texts up to MaxLen and every outcome of the library.       *)

CallEnviron ==
    Environ(Some(<<"https://env.example">>), Some(<<"env-token">>), NoneStr)

InitCall ==
    /\ environ = CallEnviron
    /\ argv = [read_only |-> FALSE, youtrack_url |-> NoneStr, youtrack_token |-> NoneStr]
    /\ mainpc = "serving"
    /\ YOUTRACK_URL = ModuleUrl(CallEnviron)
    /\ YOUTRACK_TOKEN = ModuleToken(CallEnviron)
    /\ HEADERS = ModuleHeaders(ModuleToken(CallEnviron))
    /\ ctx = AppContext(CallEnviron)
    /\ Idle

SearchAny ==
    /\ pc[1] = "idle"
    /\ \E query \in Queries, fields \in Texts, custom_fields \in OptTexts,
          top \in Tops, skip \in Skips :
          youtrack_search_issues(1, query, fields, custom_fields, top, skip)
GetAny ==
    /\ pc[1] = "idle"
    /\ \E issue_id \in IssueIds, fields \in Texts, custom_fields \in OptTexts :
          youtrack_get_issue(1, issue_id, fields, custom_fields)
UpdateAny ==
    /\ pc[1] = "idle"
    /\ \E issue_id \in IssueIds, data \in Datas, fields \in Texts :
          youtrack_update_issue(1, issue_id, data, fields)
CommentAny ==
    /\ pc[1] = "idle"
    /\ \E issue_id \in IssueIds, comment_text \in Comments, fields \in Texts :
          youtrack_add_comment(1, issue_id, comment_text, fields)
ReturnAny ==
    /\ pc[1] = "waiting"
    /\ \E o \in Outcomes(sent[1][Len(sent[1])].url) : HttpReturn(1, o)

NextCall ==
    \/ SearchAny
    \/ GetAny
    \/ UpdateAny
    \/ CommentAny
    \/ ReturnAny

SpecCall == InitCall /\ [][NextCall]_vars

----------------------------------------------------------------------------
(* Properties *)

Done(i) == pc[i] = "done"
Request(i) == sent[i][1]
ErrorDict(msg) == Dict({<<"error", msg>>})

HttpErrorStatus(o) ==
    o.kind = "response" /\ o.response.status_code >= 400 /\ o.response.status_code <= 599
TransportFailure(o) ==
    o.kind = "raise" /\ o.exc.cls \in {"ConnectionError", "Timeout"}
\* the class of the failure raised inside the try block, "" when there is none
FailureClass(o) ==
    IF o.kind = "raise" THEN o.exc.cls
    ELSE IF HttpErrorStatus(o) THEN "HTTPError"
    ELSE IF o.response.status_code # 204 /\ ~o.response.body.decodable
         THEN o.response.body.raises
    ELSE ""
UnexpectedFailure(o) ==
    FailureClass(o) # "" /\ ~IsRequestException(FailureClass(o))

\* C1: every finished invocation, whatever the backend outcome, has returned
\* a value; none has an exception leaving _make_request, the operation or
\* the facade.
C1_AlwaysReturnsValue ==
    \A i \in Inv : Done(i) => result[i].kind = "return"

C1_Witness ==
    \E i \in Inv :
        /\ Done(i)
        /\ call[i].tool = "youtrack_add_comment"
        /\ outcome[i].kind = "raise"
        /\ ~IsRequestException(outcome[i].exc.cls)
        /\ result[i].kind = "return"

\* C2: after a 4xx/5xx status or a transport failure the result is a mapping
\* whose only key is `error`, whose value is the failure's message, and the
\* response body has not been decoded nor returned.
C2_ErrorMapping ==
    \A i \in Inv :
        Done(i) /\ (HttpErrorStatus(outcome[i]) \/ TransportFailure(outcome[i])) =>
            /\ result[i].kind = "return"
            /\ result[i].value.t = "dict"
            /\ Keys(result[i].value) = {"error"}
            /\ Cardinality(result[i].value.v) = 1
            /\ ~decoded[i]
            /\ TransportFailure(outcome[i]) =>
                   result[i].value = ErrorDict(outcome[i].exc.msg)
            /\ HttpErrorStatus(outcome[i]) =>
                   \E p \in result[i].value.v :
                       /\ p[2][1] = StatusText(outcome[i].response.status_code)
                       /\ p[2][2] \in {" Client Error", " Server Error"}

C2_Witness ==
    \E i \in Inv :
        /\ Done(i)
        /\ outcome[i].kind = "response"
        /\ outcome[i].response.status_code = 404
        /\ outcome[i].response.body.decodable
        /\ Keys(result[i].value) = {"error"}

\* C3: in read-only mode no invocation of youtrack_update_issue or
\* youtrack_add_comment hands a request to the backend.
C3_ReadOnlyBlocksWrites ==
    ctx.read_only =>
        \A i \in Inv :
            call[i].tool \in {"youtrack_update_issue", "youtrack_add_comment"} =>
                sent[i] = <<>>

\* C4: a base URL or token given on the command line is the one every
\* request is built with.
C4_OverrideUsed ==
    \A i \in Inv : \A k \in 1..Len(sent[i]) :
        /\ Truthy(argv.youtrack_url) =>
               SubSeq(sent[i][k].url, 1, Len(argv.youtrack_url.s) + 1)
                   = argv.youtrack_url.s \o <<"/api/">>
        /\ Truthy(argv.youtrack_token) =>
               sent[i][k].headers["Authorization"] = <<"Bearer ">> \o argv.youtrack_token.s

\* C5: for search and get the `fields` query parameter is `fields` when
\* custom_fields is None or empty, and fields + "," + custom_fields otherwise.
C5_FieldsParameter ==
    \A i \in Inv :
        pc[i] # "idle" /\ call[i].tool \in {"youtrack_search_issues", "youtrack_get_issue"} =>
            LET a == call[i].args
                cf == a["custom_fields"]
            IN  Request(i).params["fields"] =
                    IF cf.isNone \/ Len(cf.s) = 0
                    THEN a["fields"]
                    ELSE [k \in 1..(Len(a["fields"]) + 1 + Len(cf.s)) |->
                            IF k <= Len(a["fields"]) THEN a["fields"][k]
                            ELSE IF k = Len(a["fields"]) + 1 THEN ","
                            ELSE cf.s[k - Len(a["fields"]) - 1]]

C5_Witness ==
    \E i \in Inv :
        /\ pc[i] # "idle"
        /\ call[i].tool = "youtrack_get_issue"
        /\ ~call[i].args["custom_fields"].isNone
        /\ Len(call[i].args["custom_fields"].s) = MaxLen
        /\ Len(call[i].args["fields"]) > 0
        /\ Len(Request(i).params["fields"])
               = Len(call[i].args["fields"]) + 1 + MaxLen

\* C6: a 204 response makes the invocation return the empty mapping, with no
\* `error` key and without decoding the body.
C6_NoContentIsEmptyMapping ==
    \A i \in Inv :
        Done(i) /\ outcome[i].kind = "response" /\ outcome[i].response.status_code = 204 =>
            /\ result[i].kind = "return"
            /\ result[i].value = EmptyDict
            /\ "error" \notin Keys(result[i].value)
            /\ ~decoded[i]

C6_Witness ==
    \E i \in Inv :
        /\ Done(i)
        /\ outcome[i].kind = "response"
        /\ outcome[i].response.status_code = 204
        /\ result[i].value = EmptyDict

\* C7: a failure that is neither an HTTP error status nor a request/transport
\* failure yields exactly {error: "An unexpected error occurred"}, the same
\* for every cause and without the cause's detail.
C7_GenericError ==
    \A i \in Inv :
        Done(i) /\ UnexpectedFailure(outcome[i]) =>
            /\ result[i].kind = "return"
            /\ result[i].value = ErrorDict(<<"An unexpected error occurred">>)
            /\ outcome[i].kind = "raise" => <<"error", outcome[i].exc.msg>> \notin result[i].value.v
            /\ \A j \in Inv :
                   Done(j) /\ UnexpectedFailure(outcome[j]) => result[j].value = result[i].value

C7_Witness ==
    \E i \in Inv :
        /\ Done(i)
        /\ outcome[i].kind = "raise"
        /\ outcome[i].exc.cls = "UnicodeError"
        /\ result[i].value = ErrorDict(<<"An unexpected error occurred">>)

\* C8: each operation builds the request of the documented table: method,
\* endpoint under {base}/api/, pagination and query passed through as given,
\* the body absent for the reads, `data` itself for update and
\* {"text": comment_text} for comment, and `fields` always a query parameter.
C8_RequestTable ==
    \A i \in Inv :
        pc[i] # "idle" =>
            LET a == call[i].args
                r == Request(i)
                base == YOUTRACK_URL \o <<"/api/">>
            IN  /\ "fields" \in DOMAIN r.params
                /\ call[i].tool = "youtrack_search_issues" =>
                       /\ r.method = "GET"
                       /\ r.url = base \o <<"issues">>
                       /\ DOMAIN r.params = {"query", "fields", "$top", "$skip"}
                       /\ r.params["query"] = a["query"]
                       /\ r.params["$top"] = a["top"]
                       /\ r.params["$skip"] = a["skip"]
                       /\ r.json.isNone
                /\ call[i].tool = "youtrack_get_issue" =>
                       /\ r.method = "GET"
                       /\ r.url = base \o <<"issues/">> \o a["issue_id"]
                       /\ DOMAIN r.params = {"fields"}
                       /\ r.json.isNone
                /\ call[i].tool = "youtrack_update_issue" =>
                       /\ r.method = "POST"
                       /\ r.url = base \o <<"issues/">> \o a["issue_id"]
                       /\ r.params = [k \in {"fields"} |-> a["fields"]]
                       /\ ~r.json.isNone
                       /\ r.json.j = a["data"]
                /\ call[i].tool = "youtrack_add_comment" =>
                       /\ r.method = "POST"
                       /\ r.url = base \o <<"issues/">> \o a["issue_id"] \o <<"/comments">>
                       /\ r.params = [k \in {"fields"} |-> a["fields"]]
                       /\ ~r.json.isNone
                       /\ r.json.j = [t |-> "dict", v |-> {<<"text", a["comment_text"]>>}]

C8_Witness ==
    \E i \in Inv :
        /\ pc[i] # "idle"
        /\ call[i].tool = "youtrack_search_issues"
        /\ call[i].args["top"] < 0
        /\ call[i].args["skip"] < 0
        /\ Request(i).params["$top"] < 0
        /\ Request(i).params["$skip"] < 0

\* invocations i and j are of the same tool with the same arguments
SameCall(i, j) == call[i].tool = call[j].tool /\ call[i].args = call[j].args

\* the start-up configuration and everything else invocations share
Shared == <<environ, argv, mainpc, YOUTRACK_URL, YOUTRACK_TOKEN, HEADERS, ctx>>

\* C9: under every interleaving, no operation writes the configuration; an
\* invocation's request and result, once made, are not touched by another
\* invocation; and invocations with equal arguments (and equal backend
\* responses) have equal requests (and results).
C9_Independent ==
    /\ [](\A i, j \in Inv :
            /\ pc[i] # "idle" /\ pc[j] # "idle" /\ SameCall(i, j) => sent[i] = sent[j]
            /\ Done(i) /\ Done(j) /\ SameCall(i, j) /\ outcome[i] = outcome[j] =>
                   result[i] = result[j]
            /\ pc[i] # "idle" =>
                   /\ Request(i).headers = ModuleHeaders(YOUTRACK_TOKEN)
                   /\ SubSeq(Request(i).url, 1, Len(YOUTRACK_URL)) = YOUTRACK_URL)
    /\ [][/\ mainpc = "serving" => Shared' = Shared
          /\ \A i \in Inv :
                /\ pc[i] # "idle" => call'[i] = call[i] /\ sent'[i] = sent[i]
                /\ Done(i) => result'[i] = result[i] /\ pc'[i] = pc[i]]_vars

C9_Witness ==
    \E i, j \in Inv :
        /\ i # j
        /\ Done(i) /\ Done(j)
        /\ SameCall(i, j)
        /\ sent[i] = sent[j]
        /\ outcome[i] # outcome[j]
        /\ result[i] # result[j]

\* C10: an invocation hands exactly one request to the backend, whatever the
\* outcome, and what the facade returns is what _make_request made of that
\* one outcome.
C10_ExactlyOneRequest ==
    \A i \in Inv :
        /\ pc[i] = "idle" => Len(sent[i]) = 0
        /\ pc[i] \in {"waiting", "done"} => Len(sent[i]) = 1
        /\ Done(i) =>
               /\ result[i].kind = _make_request_return(outcome[i]).kind
               /\ result[i].value = _make_request_return(outcome[i]).value

C10_Witness ==
    \E i \in Inv :
        /\ Done(i)
        /\ Len(sent[i]) = 1
        /\ "error" \in Keys(result[i].value)
        /\ outcome[i].kind = "raise"

====
